---- MODULE Spec2Model ----
(***************************************************************************)
(* Model of archive() in src/index.js: one invocation of the streaming     *)
(* S3 archiver.  The executor body of the promise (lines 43-110) is the    *)
(* producing side; the S3 lister, the S3 object readers, the archiver      *)
(* encoder's queue worker and the S3 managed upload are the asynchronous   *)
(* collaborators that run whenever the body is suspended.                  *)
(*                                                                         *)
(* Strings that the code slices, concatenates or case-folds are sequences  *)
(* of one-character strings, so that toLowerCase, lastIndexOf, substring   *)
(* and template concatenation are computed, not assumed.                   *)
(***************************************************************************)
EXTENDS Integers, Sequences, FiniteSets, TLC

(* ------------------------------ bounds --------------------------------- *)
\* longest explicit sourceFiles list that is tried
MaxFiles == 2
\* longest scripted listing (number of pages the lister can return)
MaxPages == 2
\* most data chunks the encoder takes from one source reader
MaxChunks == 1

(* ----------------------------- constants ------------------------------- *)
\* new PassThrough(): what outputStream buffers before the archiver has to
\* wait for the upload, in chunks
HighWaterMark == 1

(* ------------------------------ strings -------------------------------- *)
Lower == <<"a", "b", "d", "i", "k", "o", "p", "r", "s", "t", "z">>
Upper == <<"A", "B", "D", "I", "K", "O", "P", "R", "S", "T", "Z">>

RECURSIVE IndexIn(_, _, _)
\* 1-based position of character c in the alphabet row, 0 when absent
IndexIn(row, c, n) ==
    IF n = 0 THEN 0
    ELSE IF row[n] = c THEN n
    ELSE IndexIn(row, c, n - 1)

toLowerChar(c) ==
    LET n == IndexIn(Upper, c, Len(Upper)) IN IF n = 0 THEN c ELSE Lower[n]

toUpperChar(c) ==
    LET n == IndexIn(Lower, c, Len(Lower)) IN IF n = 0 THEN c ELSE Upper[n]

\* String.prototype.toLowerCase
toLowerCase(s) == [n \in 1..Len(s) |-> toLowerChar(s[n])]

\* String.prototype.toUpperCase
toUpperCase(s) == [n \in 1..Len(s) |-> toUpperChar(s[n])]

RECURSIVE lastIndexOfFrom(_, _, _)
lastIndexOfFrom(s, c, n) ==
    IF n = 0 THEN -1
    ELSE IF s[n] = c THEN n - 1
    ELSE lastIndexOfFrom(s, c, n - 1)

\* String.prototype.lastIndexOf for a one-character needle: 0-based, -1 if absent
lastIndexOf(s, c) == lastIndexOfFrom(s, c, Len(s))

\* String.prototype.substring(from) with a 0-based start; a negative start
\* counts as 0
substring(s, from) == SubSeq(s, (IF from < 0 THEN 0 ELSE from) + 1, Len(s))

ZIP == <<"z", "i", "p">>
TAR == <<"t", "a", "r">>

(* ------------------------------ inputs --------------------------------- *)
\* the caller's arguments that are tried (sourceBucket and outputFilename
\* are fixed: the code only copies them)
SourceBucket == "src"
OutputFilename == <<"o">>
Prefixes == {<<>>, <<"d", "/">>}
FileNames == {<<"a">>, <<"s", "/", "b">>}
OutputFormats == {ZIP, TAR, <<"Z", "I", "P">>, <<"T", "a", "r">>, <<"r", "a", "r">>}
\* uploadOptions: nothing, or an extra request parameter together with two
\* that have the names of parameters the code sets itself.  (A Body among
\* the options is not tried: the upload would then not be of the archive.)
UploadOptionsSet ==
    { <<>>,
      [ACL |-> "private", Bucket |-> "other", Key |-> <<"k">>] }
\* archiverOptions.s3FileNameTransform: absent, or a callback that returns
\* fullKey.toUpperCase() and throws on a key containing "b"
Transforms == {"none", "upper"}

RECURSIVE SeqsUpTo(_, _)
\* all sequences over S of length 0..n
SeqsUpTo(S, n) ==
    IF n = 0 THEN {<<>>}
    ELSE LET shorter == SeqsUpTo(S, n - 1)
         IN shorter \cup {Append(q, x) : q \in {r \in shorter : Len(r) = n - 1}, x \in S}

\* what one listing page can hold, as names relative to the prefix; the
\* empty name is the object whose key is the prefix itself
PageNames ==
    { << <<>> >>,
      << <<>>, <<"a">>, <<"s", "/", "b">> >>,
      << <<"s", "/">> >> }
\* the continuation token the lister hands out with its n-th page
TokenOf(n) == <<"token", n>>
NoToken == <<"undefined">>

\* the keys S3 returns for a prefix start with it, and no key is empty
PageContents(prefix) ==
    { SelectSeq([n \in 1..Len(names) |-> prefix \o names[n]], LAMBDA k : k # <<>>) :
        names \in PageNames }

FailedPage == [fail |-> TRUE, Contents |-> <<>>, IsTruncated |-> FALSE,
               NextContinuationToken |-> NoToken]
LastPages(prefix) ==
    { [fail |-> FALSE, Contents |-> c, IsTruncated |-> FALSE,
       NextContinuationToken |-> NoToken] : c \in PageContents(prefix) }
    \cup {FailedPage}
TruncatedPages(prefix, n) ==
    { [fail |-> FALSE, Contents |-> c, IsTruncated |-> TRUE,
       NextContinuationToken |-> TokenOf(n)] : c \in PageContents(prefix) }

RECURSIVE Scripts(_, _)
\* the answers of the lister, call by call: truncated pages followed by a
\* page that is not truncated or by a failed call, n pages at most
Scripts(prefix, n) ==
    IF n = 1 THEN {<<p>> : p \in LastPages(prefix)}
    ELSE LET shorter == Scripts(prefix, n - 1)
         IN shorter
            \cup {SubSeq(r, 1, n - 2) \o <<p, q>> :
                     r \in {x \in shorter : Len(x) = n - 1},
                     p \in TruncatedPages(prefix, n - 1),
                     q \in LastPages(prefix)}

\* the value of `var continuationToken = null`
Null == <<"null">>

(* ------------------------------- state --------------------------------- *)
VARIABLES
    \* arguments of the invocation
    sourcePathPrefix, explicitFiles, outputFormat, uploadOptions,
    s3FileNameTransform, pages,
    \* locals of the executor body
    pc, sourcePath, format, outputFilePath, sourceFiles, continuationToken, next,
    \* the promise returned to the caller
    promise,
    \* the archiver instance (streamArchiver)
    streamArchiver,
    \* S3 client: calls received, and the readers handed out by getObject
    listCalls, uploadCalls, readers, uploadDone,
    \* outputStream: chunks in the conduit, chunks the upload has taken
    piped, inPipe, sinkBytes,
    \* observation: failures in order of occurrence, append calls made,
    \* whether an exception escaped to the process
    errors, appendCalls, uncaught, crashed

inputs == <<sourcePathPrefix, explicitFiles, outputFormat, uploadOptions,
            s3FileNameTransform, pages>>
locals == <<pc, sourcePath, format, outputFilePath, sourceFiles, continuationToken, next>>
s3vars == <<listCalls, uploadCalls, readers, uploadDone>>
pipevars == <<piped, inPipe, sinkBytes>>
obsvars == <<errors, appendCalls, uncaught, crashed>>
vars == <<inputs, locals, promise, streamArchiver, s3vars, pipevars, obsvars>>

NoResult == [s3Bucket |-> "none", fileKey |-> <<>>, fileSize |-> -1]
Pending == [state |-> "pending", error |-> "none", result |-> NoResult]

\* archiver(format) before any append
NoArchiver == [format |-> <<>>, queue |-> <<>>, done |-> 0, taken |-> 0,
               pointer |-> 0, finalize |-> FALSE, ended |-> FALSE]

Init ==
    /\ sourcePathPrefix \in Prefixes
    /\ outputFormat \in OutputFormats
    /\ uploadOptions \in UploadOptionsSet
    /\ s3FileNameTransform \in Transforms
    /\ explicitFiles \in SeqsUpTo(FileNames, MaxFiles)
    /\ sourceFiles = explicitFiles
    /\ pages \in IF explicitFiles = <<>> THEN Scripts(sourcePathPrefix, MaxPages)
                ELSE {<<CHOOSE p \in LastPages(sourcePathPrefix) : Len(p.Contents) >= 2>>}
    /\ pc = "validate"
    /\ sourcePath = <<>>
    /\ format = <<>>
    /\ outputFilePath = <<>>
    /\ continuationToken = NoToken
    /\ next = 1
    /\ promise = Pending
    /\ streamArchiver = NoArchiver
    /\ listCalls = <<>>
    /\ uploadCalls = <<>>
    /\ readers = <<>>
    /\ uploadDone = FALSE
    /\ piped = FALSE
    /\ inPipe = 0
    /\ sinkBytes = 0
    /\ errors = <<>>
    /\ appendCalls = <<>>
    /\ uncaught = FALSE
    /\ crashed = FALSE

(* --------------------------- the promise ------------------------------- *)
\* resolve(value) and reject(error) of a promise: only the first call of
\* either settles it
resolve(p, value) ==
    IF p.state = "pending"
    THEN [state |-> "resolved", error |-> "none", result |-> value]
    ELSE p

reject(p, error) ==
    IF p.state = "pending"
    THEN [state |-> "rejected", error |-> error, result |-> NoResult]
    ELSE p

(* ----------------------- pure parts of the body ------------------------ *)
\* line 45: sourcePathPrefix || ''
SourcePathOf(prefix) == IF prefix = <<>> THEN <<>> ELSE prefix

\* FormatOf without the fallback: whatever was asked for is passed on
FormatOfAsGiven(of) == of

\* line 46: the test lower-cases outputFormat, the value kept does not
FormatOf(of) == IF toLowerCase(of) \in {ZIP, TAR} THEN of ELSE ZIP

\* archiver(format) looks the name up as given among the registered formats
\* and throws for any other name
Registered(f) == f \in {ZIP, TAR}

\* line 49
OutputFilePathOf(path, name, f) == path \o name \o <<".">> \o f

\* ParamsOf with the spread of uploadOptions first, so that the three
\* parameters of the code win
ParamsOfOptionsFirst(bucket, key, opts) ==
    [Bucket |-> bucket, Key |-> key, Body |-> "outputStream"] @@ opts

\* lines 52-57: the spread of uploadOptions comes last
ParamsOf(bucket, key, opts) ==
    opts @@ [Bucket |-> bucket, Key |-> key, Body |-> "outputStream"]

\* ResultOf reporting the size without the last chunk emitted
ResultOfShort(data, pointer) ==
    [s3Bucket |-> data.Bucket, fileKey |-> data.Key, fileSize |-> pointer - 1]

\* lines 63-67: the value the upload callback resolves with
ResultOf(data, pointer) ==
    [s3Bucket |-> data.Bucket, fileKey |-> data.Key, fileSize |-> pointer]

\* PrefixAll that leaves the names as supplied
PrefixAllBare(path, files) == files

\* line 74
PrefixAll(path, files) == [n \in 1..Len(files) |-> path \o files[n]]

\* ListParamsOf that asks for the first page every time
ListParamsOfFirstPage(bucket, token, path) ==
    IF Len(path) > 0
    THEN [Bucket |-> bucket, ContinuationToken |-> Null, Prefix |-> path]
    ELSE [Bucket |-> bucket, ContinuationToken |-> Null]

\* lines 79-81: Prefix is set only for a non-empty sourcePath
ListParamsOf(bucket, token, path) ==
    IF Len(path) > 0
    THEN [Bucket |-> bucket, ContinuationToken |-> token, Prefix |-> path]
    ELSE [Bucket |-> bucket, ContinuationToken |-> token]

\* KeysOf that keeps the key equal to sourcePath
KeysOfAll(contents, path) == contents

\* line 85: the keys of a page without the key equal to sourcePath
KeysOf(contents, path) == SelectSeq(contents, LAMBDA k : k # path)

\* the supplied callback throws
TransformThrows(transform, key) ==
    transform # "none" /\ \E n \in 1..Len(key) : key[n] = "b"

\* FileNameOf that cuts at the last "/" instead of after it
FileNameOfKeepSlash(transform, key) ==
    IF transform # "none"
    THEN toUpperCase(key)
    ELSE substring(key, lastIndexOf(key, "/"))

\* lines 99-101
FileNameOf(transform, key) ==
    IF transform # "none"
    THEN toUpperCase(key)
    ELSE substring(key, lastIndexOf(key, "/") + 1)

(* -------------------- the executor body, lines 43-110 ------------------ *)
\* Throw that settles the promise with resolve
ThrowResolving(error) ==
    /\ pc' = "done"
    /\ errors' = Append(errors, error)
    /\ promise' = resolve(promise, NoResult)

\* the catch of line 107: the body ends and the promise is rejected
Throw(error) ==
    /\ pc' = "done"
    /\ errors' = Append(errors, error)
    /\ promise' = reject(promise, error)

\* lines 45-47
Validate ==
    /\ pc = "validate"
    /\ sourcePath' = SourcePathOf(sourcePathPrefix)
    /\ format' = FormatOf(outputFormat)
    /\ IF Registered(format')
       THEN /\ streamArchiver' = [streamArchiver EXCEPT !.format = format']
            /\ pc' = "upload"
            /\ UNCHANGED <<errors, promise>>
       ELSE /\ Throw("FormatNotRegistered")
            /\ UNCHANGED streamArchiver
    /\ UNCHANGED <<inputs, outputFilePath, sourceFiles, continuationToken, next,
                   s3vars, pipevars, appendCalls, uncaught, crashed>>

\* lines 49-69: the upload is issued; its callback runs later
Upload ==
    /\ pc = "upload"
    /\ outputFilePath' = OutputFilePathOf(sourcePath, OutputFilename, format)
    /\ uploadCalls' = Append(uploadCalls,
                             ParamsOf(SourceBucket, outputFilePath', uploadOptions))
    /\ pc' = "pipe"
    /\ UNCHANGED <<inputs, sourcePath, format, sourceFiles, continuationToken, next,
                   promise, streamArchiver, listCalls, readers, uploadDone,
                   pipevars, obsvars>>

\* Pipe that leaves the archiver unconnected
PipeNotWired ==
    /\ pc = "pipe"
    /\ pc' = "resolve"
    /\ UNCHANGED <<inputs, sourcePath, format, outputFilePath, sourceFiles,
                   continuationToken, next, promise, streamArchiver, s3vars,
                   pipevars, obsvars>>

\* line 71
Pipe ==
    /\ pc = "pipe"
    /\ piped' = TRUE
    /\ pc' = "resolve"
    /\ UNCHANGED <<inputs, sourcePath, format, outputFilePath, sourceFiles,
                   continuationToken, next, promise, streamArchiver, s3vars,
                   inPipe, sinkBytes, obsvars>>

\* lines 73-74
ResolveExplicit ==
    /\ pc = "resolve"
    /\ Len(sourceFiles) > 0
    /\ sourceFiles' = PrefixAll(sourcePath, sourceFiles)
    /\ pc' = "append"
    /\ UNCHANGED <<inputs, sourcePath, format, outputFilePath, continuationToken,
                   next, promise, streamArchiver, s3vars, pipevars, obsvars>>

\* lines 75-76
BeginListing ==
    /\ pc = "resolve"
    /\ Len(sourceFiles) = 0
    /\ continuationToken' = Null
    /\ pc' = "list"
    /\ UNCHANGED <<inputs, sourcePath, format, outputFilePath, sourceFiles,
                   next, promise, streamArchiver, s3vars, pipevars, obsvars>>

\* lines 79-83: the request is sent and the body waits for the answer
ListObjects ==
    /\ pc = "list"
    /\ listCalls' = Append(listCalls,
                           ListParamsOf(SourceBucket, continuationToken, sourcePath))
    /\ pc' = "await"
    /\ UNCHANGED <<inputs, sourcePath, format, outputFilePath, sourceFiles,
                   continuationToken, next, promise, streamArchiver, uploadCalls,
                   readers, uploadDone, pipevars, obsvars>>

\* ListAnswer that goes on to append what it has when a call fails
ListAnswerPartial ==
    /\ pc = "await"
    /\ ~crashed
    /\ LET s3Objects == pages[Len(listCalls)] IN
       IF s3Objects.fail
       THEN /\ errors' = Append(errors, "EnumerationFailure")
            /\ pc' = "append"
            /\ UNCHANGED <<continuationToken, sourceFiles, promise>>
       ELSE /\ continuationToken' = s3Objects.NextContinuationToken
            /\ sourceFiles' = sourceFiles \o KeysOf(s3Objects.Contents, sourcePath)
            /\ pc' = IF s3Objects.IsTruncated THEN "list" ELSE "append"
            /\ UNCHANGED <<errors, promise>>
    /\ UNCHANGED <<inputs, sourcePath, format, outputFilePath, next,
                   streamArchiver, s3vars, pipevars, appendCalls, uncaught, crashed>>

\* lines 83-90: the answer arrives; a failed call throws out of the await
ListAnswer ==
    /\ pc = "await"
    /\ ~crashed
    /\ LET s3Objects == pages[Len(listCalls)] IN
       IF s3Objects.fail
       THEN /\ Throw("EnumerationFailure")
            /\ UNCHANGED <<continuationToken, sourceFiles>>
       ELSE /\ continuationToken' = s3Objects.NextContinuationToken
            /\ sourceFiles' = sourceFiles \o KeysOf(s3Objects.Contents, sourcePath)
            /\ pc' = IF s3Objects.IsTruncated THEN "list" ELSE "append"
            /\ UNCHANGED <<errors, promise>>
    /\ UNCHANGED <<inputs, sourcePath, format, outputFilePath, next,
                   streamArchiver, s3vars, pipevars, appendCalls, uncaught, crashed>>

\* AppendEntry that passes over a key it has appended before
AppendEntryOnce ==
    /\ pc = "append"
    /\ next <= Len(sourceFiles)
    /\ LET s3File == sourceFiles[next]
           s3FileName == FileNameOf(s3FileNameTransform, s3File)
       IN IF \E n \in 1..Len(appendCalls) : appendCalls[n].Key = s3File
          THEN /\ next' = next + 1
               /\ UNCHANGED <<readers, appendCalls, streamArchiver, pc, errors, promise>>
          ELSE /\ readers' = Append(readers, [Key |-> s3File, state |-> "open"])
               /\ IF TransformThrows(s3FileNameTransform, s3File)
                  THEN /\ Throw("NamingPolicyThrew")
                       /\ UNCHANGED <<appendCalls, streamArchiver, next>>
                  ELSE /\ appendCalls' = Append(appendCalls,
                                                [Key |-> s3File, name |-> s3FileName])
                       /\ IF s3FileName = <<>>
                          THEN /\ Throw("EntryNameRequired")
                               /\ UNCHANGED <<streamArchiver, next>>
                          ELSE /\ streamArchiver' =
                                    [streamArchiver EXCEPT
                                       !.queue = Append(@, [name |-> s3FileName,
                                                            reader |-> Len(readers')])]
                               /\ next' = next + 1
                               /\ UNCHANGED <<pc, errors, promise>>
    /\ UNCHANGED <<inputs, sourcePath, format, outputFilePath, sourceFiles,
                   continuationToken, listCalls, uploadCalls, uploadDone,
                   pipevars, uncaught, crashed>>

\* lines 97-104, one iteration: the reader is created, the entry is named
\* and handed to the archiver.  append() reports an empty name by emitting
\* 'error' on the archiver; nothing listens, so the emit throws.
AppendEntry ==
    /\ pc = "append"
    /\ next <= Len(sourceFiles)
    /\ LET s3File == sourceFiles[next]
           s3FileName == FileNameOf(s3FileNameTransform, s3File)
       IN /\ readers' = Append(readers, [Key |-> s3File, state |-> "open"])
          /\ IF TransformThrows(s3FileNameTransform, s3File)
             THEN /\ Throw("NamingPolicyThrew")
                  /\ UNCHANGED <<appendCalls, streamArchiver, next>>
             ELSE /\ appendCalls' = Append(appendCalls,
                                           [Key |-> s3File, name |-> s3FileName])
                  /\ IF s3FileName = <<>>
                     THEN /\ Throw("EntryNameRequired")
                          /\ UNCHANGED <<streamArchiver, next>>
                     ELSE /\ streamArchiver' =
                               [streamArchiver EXCEPT
                                  !.queue = Append(@, [name |-> s3FileName,
                                                       reader |-> Len(readers')])]
                          /\ next' = next + 1
                          /\ UNCHANGED <<pc, errors, promise>>
    /\ UNCHANGED <<inputs, sourcePath, format, outputFilePath, sourceFiles,
                   continuationToken, listCalls, uploadCalls, uploadDone,
                   pipevars, uncaught, crashed>>

\* Finalize that does not wait for the end of the loop
FinalizeEarly ==
    /\ pc = "append"
    /\ streamArchiver' = [streamArchiver EXCEPT !.finalize = TRUE]
    /\ pc' = "done"
    /\ UNCHANGED <<inputs, sourcePath, format, outputFilePath, sourceFiles,
                   continuationToken, next, promise, s3vars, pipevars, obsvars>>

\* Finalize that is also reached after the catch, as from a finally block
FinalizeInFinally ==
    /\ \/ pc = "append" /\ next > Len(sourceFiles)
       \/ pc = "done" /\ errors # <<>> /\ ~streamArchiver.finalize /\ ~crashed
    /\ streamArchiver' = [streamArchiver EXCEPT !.finalize = TRUE]
    /\ pc' = "done"
    /\ UNCHANGED <<inputs, sourcePath, format, outputFilePath, sourceFiles,
                   continuationToken, next, promise, s3vars, pipevars, obsvars>>

\* Finalize that finalizes only an archive with entries
FinalizeNonEmpty ==
    /\ pc = "append"
    /\ next > Len(sourceFiles)
    /\ streamArchiver' = [streamArchiver EXCEPT !.finalize = Len(sourceFiles) > 0]
    /\ pc' = "done"
    /\ UNCHANGED <<inputs, sourcePath, format, outputFilePath, sourceFiles,
                   continuationToken, next, promise, s3vars, pipevars, obsvars>>

\* line 106
Finalize ==
    /\ pc = "append"
    /\ next > Len(sourceFiles)
    /\ streamArchiver' = [streamArchiver EXCEPT !.finalize = TRUE]
    /\ pc' = "done"
    /\ UNCHANGED <<inputs, sourcePath, format, outputFilePath, sourceFiles,
                   continuationToken, next, promise, s3vars, pipevars, obsvars>>

(* ------------------- the asynchronous collaborators -------------------- *)
\* Callbacks and stream events run only between the synchronous stretches
\* of the body: while it waits for a listing page, or after it has returned.
Suspended == pc \in {"await", "done"} /\ ~crashed

\* the archiver's queue worker takes a chunk of the entry at the head of
\* the queue from its reader and emits it
EntryData ==
    /\ Suspended
    /\ piped
    /\ streamArchiver.done < Len(streamArchiver.queue)
    /\ readers[streamArchiver.queue[streamArchiver.done + 1].reader].state = "open"
    /\ streamArchiver.taken < MaxChunks
    /\ inPipe < HighWaterMark
    /\ streamArchiver' = [streamArchiver EXCEPT !.taken = @ + 1, !.pointer = @ + 1]
    /\ inPipe' = inPipe + 1
    /\ UNCHANGED <<inputs, locals, promise, s3vars, piped, sinkBytes, obsvars>>

\* the reader of the entry at the head of the queue is drained and ends:
\* the entry is complete.  (A reader behind the head is paused by its
\* buffer and stays open until the worker reaches it.)
EntryEnd ==
    /\ Suspended
    /\ streamArchiver.done < Len(streamArchiver.queue)
    /\ LET k == streamArchiver.queue[streamArchiver.done + 1].reader
       IN /\ readers[k].state = "open"
          /\ readers' = [readers EXCEPT ![k].state = "ended"]
    /\ streamArchiver' = [streamArchiver EXCEPT !.done = @ + 1, !.taken = 0]
    /\ UNCHANGED <<inputs, locals, promise, listCalls, uploadCalls, uploadDone,
                   pipevars, obsvars>>

\* after finalize() and the last queued entry: the trailer, then end of stream
ArchiveEnd ==
    /\ Suspended
    /\ piped
    /\ streamArchiver.finalize
    /\ ~streamArchiver.ended
    /\ streamArchiver.done = Len(streamArchiver.queue)
    /\ inPipe < HighWaterMark
    /\ streamArchiver' = [streamArchiver EXCEPT !.ended = TRUE, !.pointer = @ + 1]
    /\ inPipe' = inPipe + 1
    /\ UNCHANGED <<inputs, locals, promise, s3vars, piped, sinkBytes, obsvars>>

\* a source object cannot be opened or read: getObject's stream emits
\* 'error'.  The body attached no listener and is not on the stack, so the
\* exception escapes to the process, which ends or is kept alive by a
\* process-level handler.
ReaderError(k) ==
    /\ Suspended
    /\ readers[k].state = "open"
    /\ readers' = [readers EXCEPT ![k].state = "errored"]
    /\ errors' = Append(errors, "ReadFailure")
    /\ uncaught' = TRUE
    /\ crashed' \in BOOLEAN
    /\ UNCHANGED <<inputs, locals, promise, streamArchiver, listCalls, uploadCalls,
                   uploadDone, pipevars, appendCalls>>

\* the managed upload takes a chunk from outputStream
SinkTake ==
    /\ Suspended
    /\ uploadCalls # <<>>
    /\ ~uploadDone
    /\ inPipe > 0
    /\ inPipe' = inPipe - 1
    /\ sinkBytes' = sinkBytes + 1
    /\ UNCHANGED <<inputs, locals, promise, streamArchiver, s3vars, piped, obsvars>>

\* lines 59-61: the upload callback reports an error
UploadError ==
    /\ Suspended
    /\ uploadCalls # <<>>
    /\ ~uploadDone
    /\ uploadDone' = TRUE
    /\ errors' = Append(errors, "UploadFailure")
    /\ promise' = reject(promise, "UploadFailure")
    /\ UNCHANGED <<inputs, locals, streamArchiver, listCalls, uploadCalls, readers,
                   pipevars, appendCalls, uncaught, crashed>>

\* lines 62-68: the upload callback reports the committed object, which S3
\* does once the body stream has ended and every chunk has been taken
UploadData ==
    /\ Suspended
    /\ uploadCalls # <<>>
    /\ ~uploadDone
    /\ streamArchiver.ended
    /\ inPipe = 0
    /\ uploadDone' = TRUE
    /\ LET data == [Bucket |-> uploadCalls[1].Bucket, Key |-> uploadCalls[1].Key]
       IN promise' = resolve(promise, ResultOf(data, streamArchiver.pointer))
    /\ UNCHANGED <<inputs, locals, streamArchiver, listCalls, uploadCalls, readers,
                   pipevars, obsvars>>

Next ==
    \/ Validate
    \/ Upload
    \/ Pipe
    \/ ResolveExplicit
    \/ BeginListing
    \/ ListObjects
    \/ ListAnswer
    \/ AppendEntry
    \/ Finalize
    \/ EntryData
    \/ EntryEnd
    \/ ArchiveEnd
    \/ \E k \in 1..Len(readers) : ReaderError(k)
    \/ SinkTake
    \/ UploadError
    \/ UploadData

Spec == Init /\ [][Next]_vars

\* the steps of the executor body itself
Body ==
    \/ Validate
    \/ Upload
    \/ Pipe
    \/ ResolveExplicit
    \/ BeginListing
    \/ ListObjects
    \/ AppendEntry
    \/ Finalize

\* Fair scheduling: the event loop runs the body to its next await or its
\* end, the lister answers each call, the archiver's worker drains a reader
\* that is open and ends the archive once it may, the upload takes what
\* outputStream holds and answers once its body has ended.  That a reader
\* or the upload fails is left to the environment.
FairSpec ==
    /\ Spec
    /\ WF_vars(Body)
    /\ WF_vars(ListAnswer)
    /\ WF_vars(EntryEnd)
    /\ WF_vars(ArchiveEnd)
    /\ WF_vars(SinkTake)
    /\ WF_vars(UploadData)

(* ------------------------------ properties ----------------------------- *)
\* nothing can settle the promise any more: the process has ended, or the
\* body has returned and the upload callback has run
Quiescent == crashed \/ (pc = "done" /\ uploadDone)

\* C1 (as claimed): fail-fast on a read error.  If reading entry k of n
\* (k < n) fails, and nothing else does, no entry after it is ever appended
\* to the archiver, no result is produced, and the promise ends rejected
\* with the read failure.
C1_FailFastOnReadError ==
    \A k \in 1..Len(readers) :
        (readers[k].state = "errored" /\ k < Len(sourceFiles)
         /\ errors = <<"ReadFailure">>)
        => /\ Len(appendCalls) <= k
           /\ promise.state # "resolved"
           /\ Quiescent => (promise.state = "rejected" /\ promise.error = "ReadFailure")

\* C2 (as claimed): first-error propagation.  Once some stage has failed,
\* the promise ends rejected and carries the first error of the invocation.
C2_FirstErrorPropagation ==
    (errors # <<>> /\ Quiescent)
    => (promise.state = "rejected" /\ promise.error = errors[1])

\* C3: the promise is settled at most once, and a run in which a stage has
\* failed never delivers a result object.
C3_OneOutcomeNoResultOnFailure ==
    [][ /\ promise.state # "pending" => promise' = promise
        /\ errors' # <<>> => promise'.state # "resolved" ]_vars

\* a second failure met a promise that the first one had rejected
C3_Witness ==
    /\ errors = <<"UploadFailure", "EnumerationFailure">>
    /\ promise.state = "rejected"
    /\ promise.error = "UploadFailure"

RECURSIVE Without(_, _)
\* the sequence s with every element equal to x left out
Without(s, x) ==
    IF s = <<>> THEN <<>>
    ELSE IF s[1] = x THEN Without(Tail(s), x)
    ELSE <<s[1]>> \o Without(Tail(s), x)

RECURSIVE ListedKeys(_, _)
\* the keys of the first n pages of the listing, page after page, without
\* the key equal to the prefix
ListedKeys(n, prefix) ==
    IF n = 0 THEN <<>>
    ELSE ListedKeys(n - 1, prefix) \o Without(pages[n].Contents, prefix)

\* the body has got the last page of the listing and gone on to append
ListingComplete ==
    /\ explicitFiles = <<>>
    /\ listCalls # <<>>
    /\ pc \in {"append", "done"}
    /\ ~pages[Len(listCalls)].fail

\* C4: entry-set completeness.  With an empty explicit list, the entries
\* used for appending are the keys of all pages the lister returned, in
\* page order and in the order within each page, less every key equal to
\* the prefix.
C4_EntrySetCompleteness ==
    ListingComplete
    => /\ sourceFiles = ListedKeys(Len(listCalls), sourcePathPrefix)
       /\ Len(appendCalls) <= Len(sourceFiles)
       /\ \A n \in 1..Len(appendCalls) :
              appendCalls[n].Key = ListedKeys(Len(listCalls), sourcePathPrefix)[n]

\* two pages, the first with the prefix's own key in it, and two entries
\* appended
C4_Witness ==
    /\ ListingComplete
    /\ Len(listCalls) = 2
    /\ \E n \in 1..Len(pages[1].Contents) : pages[1].Contents[n] = sourcePathPrefix
    /\ Len(sourceFiles) >= 2
    /\ Len(appendCalls) = Len(sourceFiles)

\* every scripted page is a successful answer
NoListingFailure == \A n \in 1..Len(pages) : ~pages[n].fail

\* C5: pagination termination.  For a lister that answers truncated pages
\* 1..n-1 and a page n that is not truncated, exactly n listing calls are
\* made: the first without a continuation token, call k+1 with the token of
\* page k, and none after page n.
C5_PaginationTermination ==
    (explicitFiles = <<>> /\ NoListingFailure)
    => /\ Len(listCalls) <= Len(pages)
       /\ \A k \in 1..Len(listCalls) :
              /\ listCalls[k].ContinuationToken =
                     IF k = 1 THEN Null ELSE pages[k - 1].NextContinuationToken
              /\ k > 1 => pages[k - 1].IsTruncated
       /\ pc \in {"append", "done"} /\ uploadCalls # <<>> => Len(listCalls) = Len(pages)

\* a listing of two pages was followed to its end
C5_Witness ==
    /\ explicitFiles = <<>>
    /\ NoListingFailure
    /\ Len(pages) = 2
    /\ pc = "done"
    /\ Len(listCalls) = 2
    /\ listCalls[2].ContinuationToken = TokenOf(1)

\* C6: explicit-entry precedence.  With a non-empty explicit list no listing
\* call is ever made, the resolved entries are sourcePrefix + entry in input
\* order, and no object is requested before the append loop.
C6_ExplicitEntryPrecedence ==
    explicitFiles # <<>>
    => /\ listCalls = <<>>
       /\ pc \in {"validate", "upload", "pipe", "resolve"} => readers = <<>>
       /\ (pc \in {"append", "done"} /\ uploadCalls # <<>>)
          => /\ Len(sourceFiles) = Len(explicitFiles)
             /\ \A n \in 1..Len(explicitFiles) :
                    sourceFiles[n] = sourcePathPrefix \o explicitFiles[n]

\* two different explicit entries under a prefix went through the loop
C6_Witness ==
    /\ Len(explicitFiles) = 2
    /\ explicitFiles[1] # explicitFiles[2]
    /\ sourcePathPrefix # <<>>
    /\ pc = "done"
    /\ Len(appendCalls) = 2

\* C7: byte-size invariant.  In a successful run the fileSize of the result
\* is the number of chunks the archiver emitted in the whole run and the
\* number the upload took; nothing is emitted after fileSize was read.
C7_ByteSize ==
    promise.state = "resolved"
    => /\ promise.result.fileSize = streamArchiver.pointer
       /\ promise.result.fileSize = sinkBytes
       /\ inPipe = 0

\* a run over two entries with data succeeded
C7_Witness ==
    /\ promise.state = "resolved"
    /\ Len(streamArchiver.queue) = 2
    /\ promise.result.fileSize > 2

\* outputFormat is zip or tar in some letter case
NamesZipOrTar == toLowerCase(outputFormat) \in {ZIP, TAR}

\* C8 (as claimed): case-insensitive format selection.  A zip or tar in any
\* letter case gets the archiver of that format and no error.
C8_CaseInsensitiveFormat ==
    (NamesZipOrTar /\ pc # "validate")
    => /\ streamArchiver.format = toLowerCase(outputFormat)
       /\ errors = <<>> \/ errors[1] # "FormatNotRegistered"

RECURSIVE EndsWith(_, _)
EndsWith(s, suffix) ==
    \/ suffix = <<>>
    \/ /\ Len(s) >= Len(suffix)
       /\ s[Len(s)] = suffix[Len(suffix)]
       /\ EndsWith(SubSeq(s, 1, Len(s) - 1), SubSeq(suffix, 1, Len(suffix) - 1))

\* C9: format fallback.  An outputFormat that is neither zip nor tar in any
\* letter case gets a ZIP archiver and an output key ending in ".zip", and
\* no failure on account of the format.
C9_FormatFallback ==
    (~NamesZipOrTar /\ pc # "validate")
    => /\ streamArchiver.format = ZIP
       /\ errors = <<>> \/ errors[1] # "FormatNotRegistered"
       /\ pc # "upload" => EndsWith(outputFilePath, <<".", "z", "i", "p">>)

\* a run asked for "rar" succeeded
C9_Witness ==
    /\ outputFormat = <<"r", "a", "r">>
    /\ promise.state = "resolved"
    /\ streamArchiver.format = ZIP
    /\ EndsWith(uploadCalls[1].Key, <<".", "z", "i", "p">>)

RECURSIVE AfterLastSlash(_)
\* the longest tail of the key that has no "/" in it
AfterLastSlash(key) ==
    IF key = <<>> \/ key[Len(key)] = "/" THEN <<>>
    ELSE AfterLastSlash(SubSeq(key, 1, Len(key) - 1)) \o <<key[Len(key)]>>

\* C10: entry naming.  Every append is made for the next resolved entry,
\* under the naming policy's name for its key when a policy is supplied and
\* otherwise under what follows the last "/" of the key.
C10_EntryNaming ==
    \A n \in 1..Len(appendCalls) :
        /\ appendCalls[n].Key = sourceFiles[n]
        /\ appendCalls[n].name =
               IF s3FileNameTransform = "none"
               THEN AfterLastSlash(appendCalls[n].Key)
               ELSE toUpperCase(appendCalls[n].Key)

\* a key with two "/" was appended under its last segment, after another entry
C10_Witness ==
    /\ s3FileNameTransform = "none"
    /\ Len(appendCalls) = 2
    /\ appendCalls[2].Key = <<"d", "/", "s", "/", "b">>
    /\ appendCalls[2].name = <<"b">>

\* the entries in enumeration order: the explicit ones under the prefix, or
\* the listed keys of the pages got so far
Enumerated ==
    IF explicitFiles # <<>>
    THEN [n \in 1..Len(explicitFiles) |-> sourcePathPrefix \o explicitFiles[n]]
    ELSE ListedKeys(Len(listCalls), sourcePathPrefix)

\* C11: entry order and multiplicity.  When the body has gone through the
\* loop without a failure, the append calls are one per resolved entry, in
\* enumeration order, duplicates included, and the archiver's queue holds
\* them in that order.
C11_EntryOrderAndMultiplicity ==
    streamArchiver.finalize
    => /\ Len(appendCalls) = Len(Enumerated)
       /\ \A n \in 1..Len(appendCalls) : appendCalls[n].Key = Enumerated[n]
       /\ Len(streamArchiver.queue) = Len(appendCalls)
       /\ \A n \in 1..Len(streamArchiver.queue) :
              /\ streamArchiver.queue[n].name = appendCalls[n].name
              /\ readers[streamArchiver.queue[n].reader].Key = appendCalls[n].Key

\* the same key given twice was appended twice
C11_Witness ==
    /\ streamArchiver.finalize
    /\ Len(appendCalls) = 2
    /\ appendCalls[1].Key = appendCalls[2].Key

\* C12 (as claimed): upload target.  Whatever uploadOptions holds, the
\* upload is issued for the source bucket, the key sourcePrefix +
\* outputFilename + "." + format, and the stream the archiver feeds.
C12_UploadTarget ==
    uploadCalls # <<>>
    => /\ uploadCalls[1].Bucket = SourceBucket
       /\ uploadCalls[1].Key = sourcePathPrefix \o OutputFilename \o <<".">> \o format
       /\ uploadCalls[1].Body = "outputStream"

\* the three request parameters the body sets itself
OwnParams == {"Bucket", "Key", "Body"}

\* C12 (amended): the upload is issued with the entries of uploadOptions,
\* and with the source bucket, the constructed key and the archiver's
\* stream for those of Bucket, Key and Body that uploadOptions does not name.
C12_UploadTargetUnlessOverridden ==
    uploadCalls # <<>>
    => /\ Len(uploadCalls) = 1
       /\ DOMAIN uploadCalls[1] = OwnParams \cup DOMAIN uploadOptions
       /\ \A name \in DOMAIN uploadOptions : uploadCalls[1][name] = uploadOptions[name]
       /\ "Bucket" \notin DOMAIN uploadOptions => uploadCalls[1].Bucket = SourceBucket
       /\ "Key" \notin DOMAIN uploadOptions
          => uploadCalls[1].Key = sourcePathPrefix \o OutputFilename \o <<".">> \o format
       /\ "Body" \notin DOMAIN uploadOptions => uploadCalls[1].Body = "outputStream"

\* an upload was issued with options that name Key and Bucket
C12_Witness ==
    /\ uploadCalls # <<>>
    /\ "Key" \in DOMAIN uploadOptions
    /\ uploadCalls[1].Key = <<"k">>
    /\ uploadCalls[1].Bucket = "other"
    /\ uploadCalls[1].ACL = "private"
    /\ uploadCalls[1].Body = "outputStream"

\* C13: upload starts first.  The upload has been issued and the archiver
\* piped into its body before the first listing call, the first reader and
\* the first append; and a listing answer is taken whatever the state of
\* the upload.
C13_UploadStartsFirst ==
    /\ (listCalls # <<>> \/ readers # <<>> \/ appendCalls # <<>>)
       => (uploadCalls # <<>> /\ piped)
    /\ pc = "await" => ENABLED ListAnswer

\* a second page is being awaited while the upload has taken nothing
C13_Witness ==
    /\ pc = "await"
    /\ Len(listCalls) = 2
    /\ uploadCalls # <<>>
    /\ piped
    /\ sinkBytes = 0
    /\ ~uploadDone

\* the readers handed out by getObject that have neither ended nor failed
OpenReaders == {k \in 1..Len(readers) : readers[k].state = "open"}

\* C14 (as claimed): sequential entry processing.  At most one reader is
\* open at any time, and the reader of entry i+1 is not created before
\* entry i has been fully taken into the archive.
C14_SequentialEntries ==
    /\ Cardinality(OpenReaders) <= 1
    /\ Len(readers) <= streamArchiver.done + 1

\* C15 (as claimed): stop on failure in any stage.  After a failure no
\* further reader is created, no further entry is appended and finalize is
\* not called.
C15_StopOnFailure ==
    [][ errors # <<>>
        => /\ Len(readers') = Len(readers)
           /\ Len(appendCalls') = Len(appendCalls)
           /\ streamArchiver'.finalize = streamArchiver.finalize ]_vars

\* a listing call of this run has failed
ListingFailed == \E n \in 1..Len(errors) : errors[n] = "EnumerationFailure"

\* C16 (as claimed): enumeration failure uses no partial result.  After a
\* failed listing call the promise is rejected with that error, and no
\* entry, of earlier pages either, is ever opened or appended.
C16_EnumerationFailure ==
    ListingFailed
    => /\ promise.state = "rejected"
       /\ promise.error = "EnumerationFailure"
       /\ readers = <<>>
       /\ appendCalls = <<>>

\* C16 (amended): after a failed listing call the promise is rejected, with
\* that error unless an upload failure had rejected it before, and no entry,
\* of earlier pages either, is ever opened or appended, nor is finalize called.
C16_EnumerationFailureFirstErrorKept ==
    ListingFailed
    => /\ promise.state = "rejected"
       /\ promise.error = errors[1]
       /\ errors[1] \in {"EnumerationFailure", "UploadFailure"}
       /\ readers = <<>>
       /\ appendCalls = <<>>
       /\ ~streamArchiver.finalize
       /\ pc = "done"

\* the second listing call failed after a first page with keys in it
C16_Witness ==
    /\ ListingFailed
    /\ Len(listCalls) = 2
    /\ sourceFiles # <<>>
    /\ promise.error = "EnumerationFailure"

\* C17: finalize and result ordering.  finalize is called at most once, by
\* the body as its last step, after an append for every resolved entry; a
\* result is delivered only after finalize, the end of the archive and the
\* upload's confirmation.
C17_FinalizeAndResultOrdering ==
    /\ streamArchiver.finalize
       => /\ pc = "done"
          /\ Len(appendCalls) = Len(sourceFiles)
          /\ Len(streamArchiver.queue) = Len(sourceFiles)
    /\ promise.state = "resolved"
       => /\ streamArchiver.finalize
          /\ streamArchiver.done = Len(streamArchiver.queue)
          /\ streamArchiver.ended
          /\ uploadDone

\* a run over a listing of two entries delivered its result
C17_Witness ==
    /\ promise.state = "resolved"
    /\ explicitFiles = <<>>
    /\ Len(sourceFiles) = 2
    /\ streamArchiver.finalize

\* the body has ended in the catch, before finalize
ThrewBeforeFinalize == pc = "done" /\ ~streamArchiver.finalize

\* the upload callback has run and no upload failure was reported
UploadConfirmed ==
    uploadDone /\ \A n \in 1..Len(errors) : errors[n] # "UploadFailure"

\* C19: abandoned upload after a producer-side exception.  When the body
\* has thrown before finalize, finalize is never called, the archive never
\* ends, and the upload callback never reports a committed object.
C19_AbandonedUpload ==
    [][ ThrewBeforeFinalize
        => /\ ~streamArchiver'.finalize
           /\ ~streamArchiver'.ended
           /\ ~UploadConfirmed'
           /\ promise'.state = "rejected" ]_vars

\* the naming policy threw on the second entry and the upload was left to fail
C19_Witness ==
    /\ ThrewBeforeFinalize
    /\ errors = <<"NamingPolicyThrew", "UploadFailure">>
    /\ Len(streamArchiver.queue) = 1
    /\ uploadDone

\* C20: empty entry set.  When the listing leaves no entry, no reader is
\* created and nothing is appended, finalize is still called, and a
\* confirmed upload resolves the promise with a result.
C20_EmptyEntrySet ==
    (ListingComplete /\ sourceFiles = <<>>)
    => /\ readers = <<>>
       /\ appendCalls = <<>>
       /\ pc = "done" => streamArchiver.finalize
       /\ UploadConfirmed
          => /\ promise.state = "resolved"
             /\ promise.result.fileSize = sinkBytes
             /\ promise.result.fileKey = uploadCalls[1].Key

\* a listing of nothing but the prefix's own key ended in a result
C20_Witness ==
    /\ ListingComplete
    /\ sourceFiles = <<>>
    /\ pages[1].Contents = <<sourcePathPrefix>>
    /\ promise.state = "resolved"

\* C18 (as claimed): eventual settlement.  Under fair scheduling every
\* invocation ends with its promise resolved or rejected.
C18_EventualSettlement == <>(promise.state # "pending")
====
